---- MODULE Spec2Model ----
(***************************************************************************)
(* Model of the historical data acquisition pipeline of the weather        *)
(* backend: OpendapProvider.fetch_historical_data, its per-year task       *)
(* fetch_year, the JSON file cache (_get_cached_data / _save_to_cache) and *)
(* the climatology fallback.                                               *)
(*                                                                         *)
(* An observation has 15 numeric fields that the code treats alike         *)
(* (float(d.get(key, default)) or int(d.get(key, default))); the model     *)
(* carries one float field ("temperature" -> temperatureC, default 15) and *)
(* one int field ("hour_max" -> hourMax, default 14).  A climatology       *)
(* estimate has no hourMax, as in the source.  Numbers are integers.       *)
(*                                                                         *)
(* The second part models predict_for_point on the returned Sample and     *)
(* the pure functions of the prediction: the cache key, the weather        *)
(* classification, the rain and snow probabilities, the heat index, the    *)
(* clamped, rounded predicted values with their confidence and textual     *)
(* conditions, the fields of the climatology estimate and the season and   *)
(* wind direction of the synthetic provider, each in fixed-point integers. *)
(***************************************************************************)
EXTENDS Integers, Sequences, FiniteSets, TLC

\* ---------------------------------------------------------------- bounds
MaxTaskYears == 1
MaxYearsBack == 2
MaxPoolYears == 6

\* ------------------------------------------------------ program constants
max_workers == 5
CurrentYear == 2026
DefaultTemperature == 15
DefaultHourMax == 14

VARIABLES
    args,         \* arguments of the fetch_historical_data call
    archive,      \* what the remote archive answers for each year
    cache,        \* /tmp/merra2_cache: cache key -> file
    pc,           \* position of fetch_historical_data
    task,         \* per year: position and locals of fetch_year
    remoteCalls,  \* years for which _fetch_merra2_day has been called
    yielded,      \* futures already yielded by as_completed
    data,         \* the list `data`
    unfinished,   \* tasks not finished when the deadline expired
    sample,       \* the returned DataFrame (rows in order)
    file,         \* one cache file shared by concurrent put/get
    writer,       \* concurrent _save_to_cache calls on that file
    reader,       \* concurrent _get_cached_data calls on that file
    prev,         \* the earlier fetch_historical_data call, once it returned
    inp,          \* arguments of a pure function under evaluation
    out           \* its result

vars == <<args, archive, cache, pc, task, remoteCalls, yielded, data,
          unfinished, sample, file, writer, reader, prev, inp, out>>

fetchVars == <<args, archive, cache, pc, task, remoteCalls, yielded, data,
               unfinished, sample>>

fileVars == <<file, writer, reader>>

calcVars == <<inp, out>>

\* ------------------------------------------------------------ option type
None == <<>>

Some(x) == <<x>>

\* ------------------------------------------------------------------ JSON
\* a JSON scalar: a number, or something float()/int() rejects (a string)
Num(n) == [num |-> TRUE, v |-> n]

Str == [num |-> FALSE, v |-> 0]

EmptyDict == [k \in {} |-> Str]

JDict(d) == [kind |-> "dict", d |-> d]

JList == [kind |-> "list", d |-> EmptyDict]

Obs(t, h) == [temperature |-> Num(t), hour_max |-> Num(h)]

DigitChars == <<"0", "1", "2", "3", "4", "5", "6", "7", "8", "9">>

RECURSIVE Digits(_)
Digits(n) ==
    IF n < 10 THEN <<DigitChars[n + 1]>>
    ELSE Digits(n \div 10) \o <<DigitChars[(n % 10) + 1]>>

\* a text is the sequence of its characters
Quote == "\""

\* the byte 0, a control character
NUL == "\\0"

\* '"temperature": '
TemperatureText ==
    <<Quote, "t", "e", "m", "p", "e", "r", "a", "t", "u", "r", "e", Quote, ":", " ">>

\* '"hour_max": '
HourMaxText == <<Quote, "h", "o", "u", "r", "_", "m", "a", "x", Quote, ":", " ">>

ScalarChars(s) == IF s.num THEN Digits(s.v) ELSE <<Quote, "s", Quote>>

\* json.dump: the text of a value, members in the order of the dict and
\* separated by ', '
JsonDump(j) ==
    IF j.kind = "list" THEN <<"[", "1", "]">>
    ELSE LET d == j.d
             t == IF "temperature" \in DOMAIN d
                  THEN TemperatureText \o ScalarChars(d["temperature"]) ELSE <<>>
             h == IF "hour_max" \in DOMAIN d
                  THEN HourMaxText \o ScalarChars(d["hour_max"]) ELSE <<>>
             c == IF DOMAIN d = {"temperature", "hour_max"} THEN <<",", " ">> ELSE <<>>
         IN  <<"{">> \o t \o c \o h \o <<"}">>

IsDigit(ch) == \E i \in 1..10 : DigitChars[i] = ch

DigitVal(ch) == (CHOOSE i \in 1..10 : DigitChars[i] = ch) - 1

RECURSIVE NumberOf(_)
NumberOf(s) ==
    IF Len(s) = 1 THEN DigitVal(s[1])
    ELSE 10 * NumberOf(SubSeq(s, 1, Len(s) - 1)) + DigitVal(s[Len(s)])

\* the string of a sequence of characters
RECURSIVE Join(_)
Join(s) == IF s = <<>> THEN "" ELSE Head(s) \o Join(Tail(s))

\* the first position from i on that holds no blank
RECURSIVE SkipWs(_, _)
SkipWs(s, i) == IF i <= Len(s) /\ s[i] = " " THEN SkipWs(s, i + 1) ELSE i

\* the position of the first quote from i on, 0 when there is none or a
\* control character comes first
RECURSIVE StringEnd(_, _)
StringEnd(s, i) ==
    IF i > Len(s) \/ s[i] = NUL THEN 0
    ELSE IF s[i] = Quote THEN i
    ELSE StringEnd(s, i + 1)

\* the first position from i on that holds no digit
RECURSIVE DigitsEnd(_, _)
DigitsEnd(s, i) == IF i <= Len(s) /\ IsDigit(s[i]) THEN DigitsEnd(s, i + 1) ELSE i

NoScalar == [ok |-> FALSE, next |-> 0, v |-> Str]

\* the scalar that starts at position i and the position after it: a
\* string, or an integer without sign and without a leading zero
ParseScalar(s, i) ==
    IF i > Len(s) THEN NoScalar
    ELSE IF s[i] = Quote
         THEN LET e == StringEnd(s, i + 1) IN
              IF e = 0 THEN NoScalar ELSE [ok |-> TRUE, next |-> e + 1, v |-> Str]
    ELSE IF s[i] = "0" THEN [ok |-> TRUE, next |-> i + 1, v |-> Num(0)]
    ELSE IF IsDigit(s[i])
         THEN LET e == DigitsEnd(s, i) IN
              [ok |-> TRUE, next |-> e, v |-> Num(NumberOf(SubSeq(s, i, e - 1)))]
    ELSE NoScalar

NoMembers == [ok |-> FALSE, next |-> 0, d |-> EmptyDict]

\* the members of an object from position i, where a key is expected, to
\* its closing brace; d holds the members before i (a repeated key keeps
\* the last value, as json does)
RECURSIVE ParseMembers(_, _, _)
ParseMembers(s, i, d) ==
    IF i > Len(s) \/ s[i] # Quote THEN NoMembers
    ELSE LET e == StringEnd(s, i + 1) IN
         IF e = 0 THEN NoMembers
         ELSE LET c == SkipWs(s, e + 1) IN
              IF c > Len(s) \/ s[c] # ":" THEN NoMembers
              ELSE LET v == ParseScalar(s, SkipWs(s, c + 1)) IN
                   IF ~v.ok THEN NoMembers
                   ELSE LET key == Join(SubSeq(s, i + 1, e - 1))
                            d2 == [k \in DOMAIN d \cup {key} |->
                                      IF k = key THEN v.v ELSE d[k]]
                            n == SkipWs(s, v.next)
                        IN  IF n > Len(s) THEN NoMembers
                            ELSE IF s[n] = "}"
                                 THEN [ok |-> TRUE, next |-> n + 1, d |-> d2]
                            ELSE IF s[n] = ","
                                 THEN ParseMembers(s, SkipWs(s, n + 1), d2)
                            ELSE NoMembers

\* the items of an array from position i, where an item is expected, to its
\* closing bracket: the position after the bracket, 0 for malformed text
RECURSIVE ParseItems(_, _)
ParseItems(s, i) ==
    LET v == ParseScalar(s, i) IN
    IF ~v.ok THEN 0
    ELSE LET n == SkipWs(s, v.next) IN
         IF n > Len(s) THEN 0
         ELSE IF s[n] = "]" THEN n + 1
         ELSE IF s[n] = "," THEN ParseItems(s, SkipWs(s, n + 1))
         ELSE 0

ParseError == [ok |-> FALSE, value |-> JList]

Parsed(j) == [ok |-> TRUE, value |-> j]

\* json.load: the value of a text that holds an object or a non-empty
\* array of scalars and nothing after it, or an error
\* (json.JSONDecodeError)
JsonLoad(s) ==
    LET i == SkipWs(s, 1) IN
    IF i > Len(s) THEN ParseError
    ELSE IF s[i] = "{"
         THEN LET j == SkipWs(s, i + 1)
                  m == IF j <= Len(s) /\ s[j] = "}"
                       THEN [ok |-> TRUE, next |-> j + 1, d |-> EmptyDict]
                       ELSE ParseMembers(s, j, EmptyDict)
              IN  IF m.ok /\ SkipWs(s, m.next) > Len(s)
                  THEN Parsed(JDict(m.d)) ELSE ParseError
    ELSE IF s[i] = "["
         THEN LET e == ParseItems(s, SkipWs(s, i + 1)) IN
              IF e # 0 /\ SkipWs(s, e) > Len(s) THEN Parsed(JList) ELSE ParseError
    ELSE ParseError

\* Python truthiness of a parsed JSON value
Truthy(j) == j.kind = "list" \/ DOMAIN j.d # {}

\* ------------------------------------------------------------ cache files
Absent == [exists |-> FALSE, bytes |-> <<>>]

FileOf(bytes) == [exists |-> TRUE, bytes |-> bytes]

\* open(cache_file, 'w'): creates or truncates the file
OpenW(f) == FileOf(<<>>)

\* a write of `bytes` at offset 0 (the position of a freshly opened 'w'
\* descriptor): bytes beyond the written range stay
WriteAt0(f, bytes) ==
    FileOf(bytes \o SubSeq(f.bytes, Len(bytes) + 1, Len(f.bytes)))

\* how a get ends: "ok", or the call that fails: the stat of
\* cache_file.exists() (any error but "no such file"), or open() and the
\* read
GetOutcomes == {"ok", "stat_error", "open_error"}

\* _get_cached_data on a file that is not being written concurrently:
\* cache_file.exists() of line 145 is outside the try and its error goes to
\* the caller; an error of open() or of the read, like one of json.load,
\* is caught at line 151 and the get returns None
_get_cached_data(f, outcome) ==
    IF outcome = "stat_error" THEN [raised |-> TRUE, value |-> None]
    ELSE IF ~f.exists \/ outcome = "open_error" THEN [raised |-> FALSE, value |-> None]
    ELSE LET p == JsonLoad(f.bytes)
         IN  [raised |-> FALSE, value |-> IF p.ok THEN Some(p.value) ELSE None]

\* how a put ends: "ok", or the call that fails.  The text is written when
\* the `with` block closes the file: the flush calls write() until the
\* text is stored or a call fails, and after a failure the close flushes
\* once more from where the first flush stopped; `stored` is the number of
\* bytes the two have stored, any number up to the length of the text
WriteError(k) == [kind |-> "write_error", stored |-> k]

\* the numbers of bytes a put that fails, or a write() that stores less
\* than it was given, has stored in the runs of the model: none; ten, inside
\* what the texts of all observations share; seventeen, behind the first
\* byte in which two such texts differ
PartialBytes == {0, 10, 17}

PutOutcomes ==
    {[kind |-> k, stored |-> 0] : k \in {"ok", "mkdir_error", "open_error"}}
        \cup {WriteError(k) : k \in PartialBytes}

\* the outcomes of the puts of the fetches over several years and of two
\* fetches in a row: of the writes that fail, the one that stored nothing
\* and one that stored a part
SamplePuts == {o \in PutOutcomes : o.stored \in {0, 17}}

_save_to_cacheMutant(f, d, outcome) ==
    [raised |-> FALSE, file |-> FileOf(JsonDump(JDict(Obs(5, 9))))]

\* _save_to_cache on a file nobody else is writing: cache_dir.mkdir is
\* outside the try and raises to the caller; open() and the write are
\* inside it and their errors are swallowed.  A write that fails leaves the
\* bytes that were stored in the truncated file (all of the text, when the
\* flush of the close stored the rest).
_save_to_cache(f, d, outcome) ==
    CASE outcome.kind = "mkdir_error" -> [raised |-> TRUE, file |-> f]
      [] outcome.kind = "open_error"  -> [raised |-> FALSE, file |-> f]
      [] outcome.kind = "write_error" ->
            [raised |-> FALSE,
             file |-> WriteAt0(OpenW(f), SubSeq(JsonDump(JDict(d)), 1, outcome.stored))]
      [] OTHER -> [raised |-> FALSE,
                   file |-> WriteAt0(OpenW(f), JsonDump(JDict(d)))]

\* ------------------------------------------------------- keys and dates
\* f"{x:.2f}" of a coordinate given in thousandths of a degree that is not
\* half-way between two hundredths: the sign is printed for every negative
\* value, also when the digits round to 0.00.
FormatCoord(x) ==
    LET a == IF x < 0 THEN 0 - x ELSE x
        h == (a + 5) \div 10
    IN  <<IF x < 0 THEN "-" ELSE "", h>>

\* _get_cache_key: md5 of "<lat>_<lon>_<YYYYmmdd>"; the digest is taken to
\* be injective on these strings, so the key is the string's parts.
_get_cache_key(lat, lon, y, m, d) == <<FormatCoord(lat), FormatCoord(lon), y, m, d>>

IsLeap(y) == y % 4 = 0 /\ (y % 100 # 0 \/ y % 400 = 0)

DaysInMonth(y, m) ==
    IF m = 2 THEN (IF IsLeap(y) THEN 29 ELSE 28)
    ELSE IF m \in {4, 6, 9, 11} THEN 30 ELSE 31

\* datetime(year, month, day) raises ValueError unless the date exists
DateValid(y, m, d) == m \in 1..12 /\ d \in 1..DaysInMonth(y, m)

\* years = list(range(current_year - years_back, current_year))
YearsOf(n) == (CurrentYear - n)..(CurrentYear - 1)

Years == YearsOf(args.years_back)

KeyOf(y) == _get_cache_key(args.lat, args.lon, y, args.target_month, args.target_day)

\* -------------------------------------------------------------- records
DictGetMutant(d, k, default) == Num(default)

\* d.get(k, default)
DictGet(d, k, default) == IF k \in DOMAIN d THEN d[k] ELSE Num(default)

\* float(...)/int(...) of every looked-up field succeed
Convertible(j) == j.kind = "dict" /\ \A k \in DOMAIN j.d : j.d[k].num

\* the dict built at lines 218-235 and 247-264
RecordOf(y, d) ==
    [year |-> y,
     temperatureC |-> DictGet(d, "temperature", DefaultTemperature).v,
     hourMax |-> DictGet(d, "hour_max", DefaultHourMax).v]

\* the draws of np.random in the climatology estimate
ClimTemps == {9, 21}

\* _get_climatology_estimate: year and the drawn, derived values; the
\* dict has none of temperatureMax/Min/Avg, hourMax, hourMin.
_get_climatology_estimate(y, c) == [year |-> y, temperatureC |-> c]

FallbackYearsMutant(n) == YearsOf(n) \ {CurrentYear - 1}

FallbackYears(n) == YearsOf(n)

\* _get_fallback_data: one estimate per year of the range, ascending;
\* draw[y] is the random draw of year y's estimate
_get_fallback_data(n, draw) ==
    LET ys == FallbackYears(n)
        lo == CurrentYear - n
    IN  [i \in 1..Cardinality(ys) |-> _get_climatology_estimate(lo + i - 1, draw[lo + i - 1])]

\* ------------------------------------------------------------- the fetch
ArchiveError == [ok |-> FALSE, data |-> Obs(0, 0)]

ArchiveData(d) == [ok |-> TRUE, data |-> d]

ArchiveAnswers == {ArchiveError, ArchiveData(Obs(12, 16))}

CacheContents ==
    {Absent,
     FileOf(<<>>),
     FileOf(JsonDump(JDict(EmptyDict))),
     FileOf(JsonDump(JList)),
     FileOf(JsonDump(JDict([temperature |-> Num(20), hour_max |-> Str]))),
     FileOf(JsonDump(JDict([temperature |-> Num(20)]))),
     FileOf(JsonDump(JDict(Obs(5, 9))))}

Dates == {<<7, 4>>, <<2, 29>>}

NewTask == [pc |-> "new", cached |-> None, ret |-> None]

Running == {y \in Years : task[y].pc \in {"cache", "remote"}}

WorkerAvailableMutant == TRUE

\* ThreadPoolExecutor(max_workers=5): a queued work item starts only on a
\* free worker thread
WorkerAvailable == Cardinality(Running) < max_workers

\* no pure function is under evaluation
NoInput == [fn |-> "none"]

InitFile ==
    /\ file = Absent
    /\ writer = <<>>
    /\ reader = <<>>
    /\ prev = None
    /\ inp = NoInput
    /\ out = None

InitFetch(maxYears, dates, answers, contents) ==
    /\ \E n \in 1..maxYears, md \in dates :
          args = [lat |-> 40710, lon |-> -74010, target_month |-> md[1],
                  target_day |-> md[2], years_back |-> n]
    /\ archive \in [Years -> answers]
    /\ cache \in [{KeyOf(y) : y \in Years} -> contents]
    /\ pc = "idle"
    /\ task = [y \in Years |-> NewTask]
    /\ remoteCalls = {}
    /\ yielded = {}
    /\ data = <<>>
    /\ unfinished = {}
    /\ sample = <<>>

\* the cache files of a fetch over several years: no file, an entry, or a
\* file that is not an entry
SampleContents ==
    {Absent, FileOf(JsonDump(JList)), FileOf(JsonDump(JDict(Obs(5, 9))))}

Init ==
    /\ InitFetch(MaxYearsBack, Dates, ArchiveAnswers, SampleContents)
    /\ InitFile

\* a fetch over few years, with every kind of cache file
InitTask ==
    /\ InitFetch(MaxTaskYears, Dates, ArchiveAnswers, CacheContents)
    /\ InitFile

\* fetch_historical_data up to executor.submit of every year (line 276)
FetchCall ==
    /\ pc = "idle"
    /\ pc' = "collect"
    /\ task' = [y \in Years |-> [NewTask EXCEPT !.pc = "queued"]]
    /\ UNCHANGED <<args, archive, cache, remoteCalls, yielded, data,
                   unfinished, sample>>
    /\ UNCHANGED <<prev, fileVars, calcVars>>

FinishMutant(y, r) == task' = [z \in Years |-> [task[z] EXCEPT !.pc = "done", !.ret = r]]
\* fetch_year returns r: the future of year y is done, with r as result
Finish(y, r) == task' = [task EXCEPT ![y].pc = "done", ![y].ret = r]

\* a worker takes fetch_year(y): line 211 builds the date; ValueError goes
\* to the except of line 267
StartTask(y) ==
    /\ pc \in {"collect", "shutdown"}
    /\ task[y].pc = "queued"
    /\ WorkerAvailable
    /\ IF DateValid(y, args.target_month, args.target_day)
       THEN task' = [task EXCEPT ![y].pc = "cache"]
       ELSE \E c \in ClimTemps : Finish(y, Some(_get_climatology_estimate(y, c)))
    /\ UNCHANGED <<args, archive, cache, pc, remoteCalls, yielded, data,
                   unfinished, sample>>
    /\ UNCHANGED <<prev, fileVars, calcVars>>

\* fetch_year lines 214-238: the cache lookup, whose get ends as o says,
\* the hit branch, and on a miss the call of _fetch_merra2_day; an
\* exception of the get goes to the except of line 267
CacheLookup(y, o) ==
    /\ task[y].pc = "cache"
    /\ LET got == _get_cached_data(cache[KeyOf(y)], o)
           cached == got.value
       IN
       IF got.raised
       THEN /\ \E c \in ClimTemps : Finish(y, Some(_get_climatology_estimate(y, c)))
            /\ UNCHANGED remoteCalls
       ELSE
       IF cached # None /\ Truthy(cached[1])
       THEN /\ IF Convertible(cached[1])
               THEN task' = [task EXCEPT ![y].pc = "done", ![y].cached = cached,
                                         ![y].ret = Some(RecordOf(y, cached[1].d))]
               ELSE \E c \in ClimTemps :
                      task' = [task EXCEPT ![y].pc = "done", ![y].cached = cached,
                                  ![y].ret = Some(_get_climatology_estimate(y, c))]
            /\ UNCHANGED remoteCalls
       ELSE /\ task' = [task EXCEPT ![y].pc = "remote", ![y].cached = cached]
            /\ remoteCalls' = remoteCalls \cup {y}
    /\ UNCHANGED <<args, archive, cache, pc, yielded, data, unfinished, sample>>
    /\ UNCHANGED <<prev, fileVars, calcVars>>

\* fetch_year lines 238-270: _fetch_merra2_day returns the day's dict, or
\* None after any exception (lines 466-470); then the put, which ends as
\* o says, and the return
RemoteReturn(y, o) ==
    /\ task[y].pc = "remote"
    /\ IF archive[y].ok
       THEN   LET put == _save_to_cache(cache[KeyOf(y)], archive[y].data, o) IN
              /\ cache' = [cache EXCEPT ![KeyOf(y)] = put.file]
              /\ IF put.raised
                 THEN \E c \in ClimTemps : Finish(y, Some(_get_climatology_estimate(y, c)))
                 ELSE Finish(y, Some(RecordOf(y, archive[y].data)))
       ELSE /\ Finish(y, None)
            /\ UNCHANGED cache
    /\ UNCHANGED <<args, archive, pc, remoteCalls, yielded, data, unfinished, sample>>
    /\ UNCHANGED <<prev, fileVars, calcVars>>

\* one iteration of `for future in as_completed(futures, timeout=60)`
Collect(y) ==
    /\ pc = "collect"
    /\ task[y].pc = "done"
    /\ y \notin yielded
    /\ yielded' = yielded \cup {y}
    /\ data' = IF task[y].ret # None THEN Append(data, task[y].ret[1]) ELSE data
    /\ UNCHANGED <<args, archive, cache, pc, task, remoteCalls, unfinished, sample>>
    /\ UNCHANGED <<prev, fileVars, calcVars>>

\* as_completed raises TimeoutError while futures remain to be yielded; the
\* exception leaves the `with` block, whose exit is shutdown(wait=True)
Timeout ==
    /\ pc = "collect"
    /\ yielded # Years
    /\ pc' = "shutdown"
    /\ unfinished' = {y \in Years : task[y].pc # "done"}
    /\ UNCHANGED <<args, archive, cache, task, remoteCalls, yielded, data, sample>>
    /\ UNCHANGED <<prev, fileVars, calcVars>>

NoDataMutant(d) == FALSE

\* line 291: `if not data`
NoData(d) == d = <<>>

CaughtMutant(exc) == exc = "ValueError"

\* line 296: `except Exception` catches what the try block raises, the
\* ValueError of line 292 and the TimeoutError of as_completed
Caught(exc) == exc \in {"ValueError", "TimeoutError"}

\* the try block of lines 203-294 ends with exception exc: the handler
\* returns _get_fallback_data(...), anything else reaches the caller
Raise(exc) ==
    IF Caught(exc)
    THEN /\ pc' = "returned"
         /\ \E draw \in [Years -> ClimTemps] :
               sample' = _get_fallback_data(args.years_back, draw)
    ELSE /\ pc' = "raised"
         /\ UNCHANGED sample

\* lines 291-299 after the loop ended normally
Return ==
    /\ pc = "collect"
    /\ yielded = Years
    /\ IF NoData(data)
       THEN Raise("ValueError")
       ELSE /\ pc' = "returned"
            /\ sample' = data
    /\ UNCHANGED <<args, archive, cache, task, remoteCalls, yielded, data, unfinished>>
    /\ UNCHANGED <<prev, fileVars, calcVars>>

\* the executor has joined its workers; the TimeoutError reaches the
\* except of line 296
ShutdownFallback ==
    /\ pc = "shutdown"
    /\ \A y \in Years : task[y].pc = "done"
    /\ Raise("TimeoutError")
    /\ UNCHANGED <<args, archive, cache, task, remoteCalls, yielded, data, unfinished>>
    /\ UNCHANGED <<prev, fileVars, calcVars>>

\* ------------------------------------- predict_for_point on the Sample
\* pd.DataFrame(list of dicts): the columns are the union of the keys
Columns(df) == UNION {DOMAIN df[i] : i \in 1..Len(df)}

NaN == None

\* a cell is NaN where the row's dict had no such key
Cell(df, i, k) == IF k \in DOMAIN df[i] THEN Some(df[i][k]) ELSE NaN

\* row.get(k, default) on a row of iterrows(): the default is used only
\* when the frame has no column k
RowGet(df, i, k, default) ==
    IF k \in Columns(df) THEN Cell(df, i, k) ELSE Some(default)

\* int(x) raises ValueError on NaN
IntOk(x) == x # NaN

\* the loop of lines 176-200: int(row.get("hourMax", 14)) for each row
HistoricalRecordsOk(df) ==
    \A i \in 1..Len(df) : IntOk(RowGet(df, i, "hourMax", DefaultHourMax))

\* predict_for_point after its fetch_historical_data call returned:
\* the empty check of lines 60-61, then the statistics, the prediction and
\* the list of historical records
PredictForPoint ==
    /\ pc = "returned"
    /\ pc' = IF sample = <<>> THEN "empty_error"
             ELSE IF HistoricalRecordsOk(sample) THEN "predicted"
             ELSE "value_error"
    /\ UNCHANGED <<args, archive, cache, task, remoteCalls, yielded, data,
                   unfinished, sample>>
    /\ UNCHANGED <<prev, fileVars, calcVars>>

\* the steps of one fetch_historical_data call whose gets end in one of
\* the ways `gets` and whose puts in one of the ways `puts`
NextFetch(gets, puts) ==
    \/ FetchCall
    \/ \E y \in Years : StartTask(y)
    \/ \E y \in Years, o \in gets : CacheLookup(y, o)
    \/ \E y \in Years, o \in puts : RemoteReturn(y, o)
    \/ \E y \in Years : Collect(y)
    \/ Timeout
    \/ Return
    \/ ShutdownFallback

\* a fetch and the prediction from its Sample; the gets of the fetch over
\* several years find the files readable
Next ==
    \/ NextFetch({"ok"}, SamplePuts)
    \/ PredictForPoint

Spec == Init /\ [][Next]_vars

\* the same with every outcome of the gets and the puts
SpecTask == InitTask /\ [][NextFetch(GetOutcomes, PutOutcomes) \/ PredictForPoint]_vars

\* ---------------------------------------------- the orchestrator's pool
\* more years than workers: an empty cache and an archive that fails for
\* every year, so that every task goes through its remote call
InitPool ==
    /\ \E n \in 1..MaxPoolYears :
          args = [lat |-> 40710, lon |-> -74010, target_month |-> 7,
                  target_day |-> 4, years_back |-> n]
    /\ archive = [y \in Years |-> ArchiveError]
    /\ cache = [k \in {KeyOf(y) : y \in Years} |-> Absent]
    /\ pc = "idle"
    /\ task = [y \in Years |-> NewTask]
    /\ remoteCalls = {}
    /\ yielded = {}
    /\ data = <<>>
    /\ unfinished = {}
    /\ sample = <<>>
    /\ InitFile

SpecPool == InitPool /\ [][NextFetch({"ok"}, {o \in PutOutcomes : o.kind = "ok"})]_vars

\* ------------------------------- concurrent put and get on one cache file
\* Calls of _save_to_cache and _get_cached_data from different requests
\* (or processes) for the same key, step by step.  The text of an entry is
\* far shorter than the file object's buffer, so json.dump hands it to the
\* file when the `with` block closes it: the flush calls write() for the
\* bytes not yet stored until none is left or a call fails, and after a
\* failure the close flushes once more, from where the first flush stopped.
\* A write() stores bytes at the descriptor's offset, a word at a time, and
\* then sets the file's size; it may store fewer bytes than it was given.
\* What the calls have stored stays in the file.  Writes and truncations of
\* one file exclude each other, reads exclude nothing.  json.load(f) is
\* f.read(), which takes the file's size and then calls read() until a call
\* returns nothing.  A read() call returns nothing at the end of the file;
\* otherwise it takes the page that holds the file's bytes, then the number
\* of bytes from the file's size, then copies them from that page a word at
\* a time.  A truncation drops the page: a call that holds it goes on with
\* the bytes it had, and zero bytes beyond them.  The stat of the get's
\* exists(), its open() and its read() calls can fail.

Min(a, b) == IF a < b THEN a ELSE b

\* the buffer of f.read() for a file whose size is not known or 0, and the
\* amount it grows by when full
SMALLCHUNK == 8192

\* the bytes a copy into or out of the file moves at a time
WordBytes == 8

\* the end of the word that holds the byte at offset pos
WordEnd(pos) == ((pos \div WordBytes) + 1) * WordBytes

\* the calls of _save_to_cache for the key, one put each
Writers == {"w1", "w2"}

\* a request that calls _get_cached_data for the key again and again
Readers == {"r1"}

PutData == {Obs(5, 9), Obs(12, 16)}

\* a get that has read nothing yet
NewReader ==
    [pc |-> "idle", seen |-> Absent, ret |-> None,
     bufsize |-> 0, pos |-> 0, n |-> 0, got |-> 0, text |-> <<>>,
     live |-> TRUE, page |-> <<>>]

\* a put that has stored nothing yet; one that is over keeps how it ended
\* and no data.  pos is the descriptor's offset, the number of bytes of the
\* text stored by the write() calls that returned; off and len are where
\* the call under way has got to and where it is to end; fails counts the
\* flushes that failed
NewWriter(at, d) == [pc |-> at, d |-> d, pos |-> 0, off |-> 0, len |-> 0, fails |-> 0]

\* the file is as earlier puts left it: absent, or an entry
InitCache ==
    /\ InitFetch(1, {<<7, 4>>}, {ArchiveError}, {Absent})
    /\ file \in {Absent} \cup {FileOf(JsonDump(JDict(d))) : d \in PutData}
    /\ writer = [w \in Writers |-> NewWriter("idle", Obs(5, 9))]
    /\ reader = [r \in Readers |-> NewReader]
    /\ prev = None
    /\ inp = NoInput
    /\ out = None

\* no write() on the file is under way
Unlocked == \A w \in Writers : writer[w].pc # "writing"

\* _save_to_cache lines 165-167: cache_dir.mkdir(exist_ok=True), outside
\* the try
PutStart(w, d) ==
    /\ writer[w].pc = "idle"
    /\ \E ok \in BOOLEAN :
          writer' = [writer EXCEPT ![w] =
                        IF ok THEN NewWriter("open", d) ELSE NewWriter("raised", Obs(5, 9))]
    /\ UNCHANGED <<file, reader>>
    /\ UNCHANGED <<fetchVars, prev, calcVars>>

\* a read() call that holds the page keeps the bytes the file had when it
\* was truncated
Detach(rd) ==
    IF rd.pc \in {"size", "copy"} /\ rd.live
    THEN [rd EXCEPT !.live = FALSE, !.page = file.bytes]
    ELSE rd

\* line 170: open(cache_file, 'w')
PutOpen(w) ==
    /\ writer[w].pc = "open"
    /\ \E ok \in BOOLEAN :
          IF ok
          THEN /\ Unlocked
               /\ file' = OpenW(file)
               /\ writer' = [writer EXCEPT ![w].pc = "write"]
               /\ reader' = [r \in Readers |-> Detach(reader[r])]
          ELSE /\ file' = file
               /\ writer' = [writer EXCEPT ![w] = NewWriter("done", Obs(5, 9))]
               /\ reader' = reader
    /\ UNCHANGED <<fetchVars, prev, calcVars>>

\* one step of a write() that is to store the bytes of text from offset
\* wr.pos to wr.len and has got to wr.off: the next word of the bytes that
\* lie inside the file, or, when none is left, the bytes beyond the file's
\* size together with the new size (bytes between the old size and the
\* offset are zero); then the call returns.  The put has stored its entry
\* when no byte of the text is left, else the flush calls write() again
StoreStep(w, wr, text) ==
    LET inside == Min(wr.len, Len(file.bytes))
        hi == Min(WordEnd(wr.off), inside)
        size == IF wr.len > Len(file.bytes) THEN wr.len ELSE Len(file.bytes)
    IN  IF wr.off < inside
        THEN /\ file' = FileOf([i \in 1..Len(file.bytes) |->
                              IF wr.off < i /\ i <= hi THEN text[i] ELSE file.bytes[i]])
             /\ writer' = [writer EXCEPT ![w] = [wr EXCEPT !.pc = "writing", !.off = hi]]
        ELSE /\ file' = FileOf([i \in 1..size |->
                              IF wr.off < i /\ i <= wr.len THEN text[i]
                              ELSE IF i <= Len(file.bytes) THEN file.bytes[i]
                              ELSE NUL])
             /\ writer' = [writer EXCEPT ![w] =
                             IF wr.len = Len(text) THEN NewWriter("stored", Obs(5, 9))
                             ELSE [wr EXCEPT !.pc = "write", !.pos = wr.len,
                                             !.off = 0, !.len = 0]]

\* lines 171-174: json.dump and the close that flushes the text: a write()
\* for the bytes of the text from the descriptor's offset on.  It fails, and
\* with it the flush, the second time the put; or it starts to store the
\* bytes up to offset k, all that are left or fewer
PutWrite(w) ==
    /\ writer[w].pc = "write"
    /\ Unlocked
    /\ LET wr == writer[w]
           text == JsonDump(JDict(wr.d))
       IN  \/ /\ file' = file
              /\ writer' = [writer EXCEPT ![w] =
                              IF wr.fails = 1 THEN NewWriter("done", Obs(5, 9))
                              ELSE [wr EXCEPT !.fails = 1]]
           \/ \E k \in {Len(text)} \cup PartialBytes :
                 /\ wr.pos < k /\ k <= Len(text)
                 /\ StoreStep(w, [wr EXCEPT !.off = wr.pos, !.len = k], text)
    /\ UNCHANGED reader
    /\ UNCHANGED <<fetchVars, prev, calcVars>>

\* the write() goes on
PutStore(w) ==
    /\ writer[w].pc = "writing"
    /\ StoreStep(w, writer[w], JsonDump(JDict(writer[w].d)))
    /\ UNCHANGED reader
    /\ UNCHANGED <<fetchVars, prev, calcVars>>

\* _get_cached_data line 145: cache_file.exists(), whose stat fails, and
\* the get raises, or tells whether the file is there
GetStart(r) ==
    /\ reader[r].pc \in {"idle", "done", "raised"}
    /\ \E ok \in BOOLEAN :
          reader' = [reader EXCEPT ![r] =
                        [NewReader EXCEPT !.pc = IF ~ok THEN "raised"
                                                 ELSE IF file.exists THEN "found"
                                                 ELSE "done"]]
    /\ UNCHANGED <<file, writer>>
    /\ UNCHANGED <<fetchVars, prev, calcVars>>

\* lines 147-148: open(cache_file, 'r'), which fails, and the get returns
\* None (lines 151-153), or opens the file; then the start of f.read(),
\* which sizes its buffer one byte above the size the file has now
GetOpen(r) ==
    /\ reader[r].pc = "found"
    /\ \E ok \in BOOLEAN :
          reader' = [reader EXCEPT ![r] =
                        IF ok
                        THEN [reader[r] EXCEPT !.pc = "read",
                                               !.bufsize = IF Len(file.bytes) > 0
                                                           THEN Len(file.bytes) + 1
                                                           ELSE SMALLCHUNK]
                        ELSE [NewReader EXCEPT !.pc = "done"]]
    /\ UNCHANGED <<file, writer>>
    /\ UNCHANGED <<fetchVars, prev, calcVars>>

\* a read() call has returned: with no bytes f.read() ends, json.load parses
\* the text read so far and lines 149-153 return the value or None; with
\* bytes, the next call follows, into a larger buffer if this one is full
EndCall(rd) ==
    IF rd.got = 0
    THEN [NewReader EXCEPT !.pc = "done", !.seen = FileOf(rd.text),
                           !.ret = _get_cached_data(FileOf(rd.text), "ok").value,
                           !.text = rd.text]
    ELSE [rd EXCEPT !.pc = "read", !.got = 0, !.n = 0,
                    !.live = TRUE, !.page = <<>>,
                    !.bufsize = IF rd.pos >= rd.bufsize THEN rd.pos + SMALLCHUNK
                                ELSE rd.bufsize]

\* one read() call of f.read() starts: it fails, and the get returns None
\* (lines 151-153), or at the end of the file it returns nothing
GetRead(r) ==
    /\ reader[r].pc = "read"
    /\ LET rd == reader[r] IN
       \E ok \in BOOLEAN :
          reader' = [reader EXCEPT ![r] =
                        IF ~ok THEN [NewReader EXCEPT !.pc = "done"]
                        ELSE IF rd.pos >= Len(file.bytes) THEN EndCall([rd EXCEPT !.got = 0])
                        ELSE [rd EXCEPT !.pc = "page"]]
    /\ UNCHANGED <<file, writer>>
    /\ UNCHANGED <<fetchVars, prev, calcVars>>

\* the call takes the page that holds the file's bytes now
GetPage(r) ==
    /\ reader[r].pc = "page"
    /\ reader' = [reader EXCEPT ![r].pc = "size", ![r].live = TRUE, ![r].page = <<>>]
    /\ UNCHANGED <<file, writer>>
    /\ UNCHANGED <<fetchVars, prev, calcVars>>

\* a call that is to return rd.n more bytes copies its next word from its
\* page: the bytes the file holds now, or those it held when it was
\* truncated, and zero bytes beyond them
CopyWord(rd) ==
    LET src == IF rd.live THEN file.bytes ELSE rd.page
        hi == Min(rd.pos + rd.n, WordEnd(rd.pos))
        part == [i \in 1..(hi - rd.pos) |->
                    IF rd.pos + i <= Len(src) THEN src[rd.pos + i] ELSE NUL]
        nx == [rd EXCEPT !.text = rd.text \o part,
                         !.pos = hi,
                         !.got = rd.got + Len(part),
                         !.n = rd.pos + rd.n - hi]
    IN  IF nx.n > 0 THEN [nx EXCEPT !.pc = "copy"] ELSE EndCall(nx)

\* the number of bytes the call is to return, from the room left in the
\* buffer and the size the file has now, and the first word
GetSize(r) ==
    /\ reader[r].pc = "size"
    /\ LET rd == reader[r]
           n == Min(rd.bufsize - rd.pos, Len(file.bytes) - rd.pos)
       IN  reader' = [reader EXCEPT ![r] =
                        IF n <= 0 THEN EndCall([rd EXCEPT !.got = 0])
                        ELSE CopyWord([rd EXCEPT !.n = n, !.got = 0])]
    /\ UNCHANGED <<file, writer>>
    /\ UNCHANGED <<fetchVars, prev, calcVars>>

\* the next word
GetCopy(r) ==
    /\ reader[r].pc = "copy"
    /\ reader' = [reader EXCEPT ![r] = CopyWord(reader[r])]
    /\ UNCHANGED <<file, writer>>
    /\ UNCHANGED <<fetchVars, prev, calcVars>>

NextCache ==
    \/ \E w \in Writers, d \in PutData : PutStart(w, d)
    \/ \E w \in Writers : PutOpen(w)
    \/ \E w \in Writers : PutWrite(w)
    \/ \E w \in Writers : PutStore(w)
    \/ \E r \in Readers : GetStart(r)
    \/ \E r \in Readers : GetOpen(r)
    \/ \E r \in Readers : GetRead(r)
    \/ \E r \in Readers : GetPage(r)
    \/ \E r \in Readers : GetSize(r)
    \/ \E r \in Readers : GetCopy(r)

SpecCache == InitCache /\ [][NextCache]_vars

\* ------------------------------------------------- two fetches in a row
MaxTwiceYears == 1

\* latitudes in thousandths of a degree: two that print as 0.00 with
\* different signs, two that print as 0.01
TwiceLats == {-4, 4, 12, 14}

InitTwice ==
    /\ \E n \in 1..MaxTwiceYears, la \in TwiceLats :
          args = [lat |-> la, lon |-> -74010, target_month |-> 7,
                  target_day |-> 4, years_back |-> n]
    /\ archive \in [Years -> ArchiveAnswers]
    /\ cache = [k \in {KeyOf(y) : y \in Years} |-> Absent]
    /\ pc = "idle"
    /\ task = [y \in Years |-> NewTask]
    /\ remoteCalls = {}
    /\ yielded = {}
    /\ data = <<>>
    /\ unfinished = {}
    /\ sample = <<>>
    /\ InitFile

\* the caller, after fetch_historical_data returned, calls it again for
\* the same date with latitude la; /tmp/merra2_cache keeps its files
FetchAgain(la) ==
    /\ pc = "returned"
    /\ prev = None
    /\ prev' = Some([args |-> args, cache |-> cache, remoteCalls |-> remoteCalls])
    /\ args' = [args EXCEPT !.lat = la]
    /\ cache' = [k \in DOMAIN cache \cup
                       {_get_cache_key(la, args.lon, y, args.target_month,
                                       args.target_day) : y \in Years} |->
                    IF k \in DOMAIN cache THEN cache[k] ELSE Absent]
    /\ pc' = "idle"
    /\ task' = [y \in Years |-> NewTask]
    /\ remoteCalls' = {}
    /\ yielded' = {}
    /\ data' = <<>>
    /\ unfinished' = {}
    /\ sample' = <<>>
    /\ UNCHANGED <<archive, fileVars, calcVars>>

\* the gets find the file, or fail to open it
NextTwice ==
    \/ NextFetch({"ok", "open_error"}, SamplePuts)
    \/ PredictForPoint
    \/ \E la \in TwiceLats : FetchAgain(la)

SpecTwice == InitTwice /\ [][NextTwice]_vars

\* ------------------------------------------ pure functions, one call each
MaxCoord == 6

\* coordinates around zero in thousandths of a degree, none of them
\* half-way between two hundredths
Coords == {x \in (0 - MaxCoord)..MaxCoord : x % 10 # 5}

\* longitudes of which the first two print as -74.01 and the last as -74.00
Lons == {-74010, -74006, -74004}

\* two calls of _get_cache_key for the same date
KeyInputs ==
    {[fn |-> "_get_cache_key", a |-> a, b |-> b, date |-> <<2025, md[1], md[2]>>] :
        a \in Coords \X Lons, b \in Coords \X Lons, md \in {<<7, 4>>}}

CallCacheKey ==
    /\ inp.fn = "_get_cache_key"
    /\ out = None
    /\ out' = Some(<<_get_cache_key(inp.a[1], inp.a[2], inp.date[1], inp.date[2], inp.date[3]),
                     _get_cache_key(inp.b[1], inp.b[2], inp.date[1], inp.date[2], inp.date[3])>>)
    /\ UNCHANGED <<inp, fetchVars, prev, fileVars>>

\* ---- determine_weather_type; temperatures, percentages, millimetres and
\* metres per second are integers counting tenths
determine_weather_typeMutant(temp, humidity, precip, cloud_cover, wind_speed) ==
    IF temp < 20 /\ precip > 20 THEN "snowy"
    ELSE IF precip > 100 /\ wind_speed > 150 THEN "stormy"
    ELSE IF precip > 50 THEN "rainy"
    ELSE IF humidity > 900 THEN "foggy"
    ELSE IF cloud_cover > 600 THEN "cloudy"
    ELSE "sunny"

determine_weather_type(temp, humidity, precip, cloud_cover, wind_speed) ==
    IF precip > 100 /\ wind_speed > 150 THEN "stormy"
    ELSE IF temp < 20 /\ precip > 20 THEN "snowy"
    ELSE IF precip > 50 THEN "rainy"
    ELSE IF humidity > 900 THEN "foggy"
    ELSE IF cloud_cover > 600 THEN "cloudy"
    ELSE "sunny"

\* values on both sides of every threshold of the rules
WeatherInputs ==
    {[fn |-> "determine_weather_type", temp |-> t, humidity |-> h, precip |-> p,
      cloud_cover |-> c, wind_speed |-> w] :
        t \in {19, 20}, h \in {900, 901}, p \in {20, 21, 50, 51, 100, 101, 120},
        c \in {600, 601}, w \in {150, 151, 160}}

CallWeatherType ==
    /\ inp.fn = "determine_weather_type"
    /\ out = None
    /\ out' = Some(determine_weather_type(inp.temp, inp.humidity, inp.precip,
                                          inp.cloud_cover, inp.wind_speed))
    /\ UNCHANGED <<inp, fetchVars, prev, fileVars>>

\* ---- rain and snow probability, predict_for_point lines 142-165.
\* Temperature, humidity and precipitation count tenths; a probability
\* counts 1/5000 of a percent, the unit in which the snow share
\* rain * (5 - temp) / 5 of a rain probability held in hundredths is whole.
Percent == 5000

Clamp(x, lo, hi) == IF x < lo THEN lo ELSE IF x > hi THEN hi ELSE x

\* max(0, min(70, (predicted_humidity - 30) * 1.0))
HumidityFactor(humidity) == Clamp((humidity - 300) * 500, 0, 70 * Percent)

PrecipFactorMutant(precip) ==
    IF precip < 50 THEN precip * 2 * 500
    ELSE IF precip < 150 THEN 10 * Percent + (precip - 50) * 750
    ELSE 25 * Percent + (precip - 150) * 250

\* lines 148-153: the piecewise precip_factor
PrecipFactor(precip) ==
    IF precip < 50 THEN precip * 2 * 500
    ELSE IF precip < 150 THEN 10 * Percent + (precip - 50) * 750
    ELSE LET f == 25 * Percent + (precip - 150) * 250
         IN  IF f > 30 * Percent THEN 30 * Percent ELSE f

RainSnowMutant(temp, humidity, precip) ==
    LET hf == HumidityFactor(humidity)
        pf == PrecipFactor(precip)
        rain0 == Clamp(hf + pf, 0, 100 * Percent)
        snow0 == (rain0 \div 50) * (50 - temp)
    IN  [humidity_factor |-> hf, precip_factor |-> pf, rain0 |-> rain0,
         rain_probability |-> Clamp(rain0, 0, 100 * Percent),
         snow_probability |->
             IF temp < 50 THEN Clamp(snow0, 0, 100 * Percent) ELSE 0]

\* lines 145-165: the locals at the end of the block; rain0 is
\* rain_probability after line 155
RainSnow(temp, humidity, precip) ==
    LET hf == HumidityFactor(humidity)
        pf == PrecipFactor(precip)
        rain0 == Clamp(hf + pf, 0, 100 * Percent)
        snow0 == (rain0 \div 50) * (50 - temp)
        rain1 == IF rain0 - snow0 < 0 THEN 0 ELSE rain0 - snow0
    IN  [humidity_factor |-> hf, precip_factor |-> pf, rain0 |-> rain0,
         rain_probability |->
             IF temp < 50 THEN Clamp(rain1, 0, 100 * Percent)
             ELSE Clamp(rain0, 0, 100 * Percent),
         snow_probability |->
             IF temp < 50 THEN Clamp(snow0, 0, 100 * Percent) ELSE 0]

RainTemps == {-500, -20, 0, 25, 49, 50, 51, 600}

RainHumidities == {0, 299, 300, 301, 800, 1000}

RainPrecips == {0, 25, 49, 50, 100, 149, 150, 249, 250, 251, 400}

\* the block evaluated for one temperature and humidity and two
\* precipitation amounts
RainInputs ==
    {[fn |-> "rain_snow", temp |-> t, humidity |-> h, precip |-> <<p, q>>] :
        t \in RainTemps, h \in RainHumidities, p \in RainPrecips, q \in RainPrecips}

CallRainSnow ==
    /\ inp.fn = "rain_snow"
    /\ out = None
    /\ out' = Some(<<RainSnow(inp.temp, inp.humidity, inp.precip[1]),
                     RainSnow(inp.temp, inp.humidity, inp.precip[2])>>)
    /\ UNCHANGED <<inp, fetchVars, prev, fileVars>>

\* ---- calculate_heat_index (utils.py).  temp_c and humidity count tenths,
\* the result counts 1/10000 of a degree.  Inside, f is temp_f in fiftieths
\* of a degree Fahrenheit (f = 9 * temp_c + 1600 exactly) and every term of
\* the regression is cut to 1/10000 of a degree Fahrenheit, for
\* temperatures up to 60 degrees and humidity up to 100 percent.
Degree == 10000

\* a * b / d rounded down, without forming a * b
MulDiv(a, b, d) == (a \div d) * b + ((a % d) * b) \div d

\* lines 37-44: hi in 1/10000 of a degree Fahrenheit
Rothfusz(f, h) ==
    LET t2 == MulDiv(MulDiv(204901523, f, 5000), 1, 100)
        t3 == MulDiv(1014333127, h, 100000)
        t4 == MulDiv(MulDiv(22475541, f, 5000), h, 1000)
        t5 == MulDiv(MulDiv(683783, f, 5000), f, 5000)
        t6 == MulDiv(MulDiv(5481717, h, 1000), h, 1000)
        t7 == MulDiv(MulDiv(MulDiv(122874, f, 500), f, 500), h, 1000)
        t8 == MulDiv(MulDiv(MulDiv(85282, f, 50), h, 1000), h, 1000)
        t9 == MulDiv(MulDiv(MulDiv(199 * f, f, 2500), h, 1000), h, 1000)
    IN  0 - 423790 + t2 + t3 - t4 - t5 - t6 + t7 + t8 - t9

HeatGuardMutant(f, humidity) == f < 4000 /\ humidity < 400

\* line 34: temp_f < 80 or humidity < 40
HeatGuard(f, humidity) == f < 4000 \/ humidity < 400

calculate_heat_index(temp_c, humidity) ==
    LET f == 9 * temp_c + 1600 IN
    IF HeatGuard(f, humidity)
    THEN temp_c * (Degree \div 10)
    ELSE ((Rothfusz(f, humidity) - 32 * Degree) * 5) \div 9

\* temperatures and humidities on both sides of 80 F (26.67 C) and 40 %
HeatTemps == {-500, 0, 200, 266, 267, 300, 350, 450, 600}

HeatHumidities == {0, 200, 399, 400, 401, 650, 900, 1000}

HeatInputs ==
    {[fn |-> "calculate_heat_index", temp_c |-> t, humidity |-> h] :
        t \in HeatTemps, h \in HeatHumidities}

CallHeatIndex ==
    /\ inp.fn = "calculate_heat_index"
    /\ out = None
    /\ out' = Some(calculate_heat_index(inp.temp_c, inp.humidity))
    /\ UNCHANGED <<inp, fetchVars, prev, fileVars>>

\* ---- the predicted values, predict_for_point lines 112-131 and 203-220.
\* Every value counts tenths.  A mean of n rows is kept as its numerator
\* over n; NaN is the result of arithmetic on a NaN standard deviation.
MaxSampleRows == 3

RECURSIVE Sum(_, _)
\* df[k].sum()
Sum(rows, k) ==
    IF rows = <<>> THEN 0 ELSE rows[1][k] + Sum(Tail(rows), k)

\* df[k].std() is 0
AllEqual(rows, k) == \A i \in 1..Len(rows) : rows[i][k] = rows[1][k]

\* mean + np.random.normal(0, std * c) as a numerator over Len(rows): the
\* sample standard deviation of one row is NaN, and with std = 0 the draw
\* is 0; otherwise the draw is z
Noised(rows, k, z) ==
    IF Len(rows) = 1 THEN NaN
    ELSE Some(Sum(rows, k) + Len(rows) * (IF AllEqual(rows, k) THEN 0 ELSE z))

\* max(lo, min(hi, x)): min(hi, NaN) is hi, since NaN < hi is false
MaxMin(x, lo, hi, n) == IF x = NaN THEN hi * n ELSE Clamp(x[1], lo * n, hi * n)

\* max(0, x): NaN > 0 is false
Max0(x) == IF x = NaN THEN 0 ELSE IF x[1] > 0 THEN x[1] ELSE 0

\* round(num / n, 1) of a value in tenths: the nearest whole number of
\* tenths (the even one from half-way)
Round1(num, n) ==
    LET q == num \div n
        r == num % n
    IN  IF 2 * r > n THEN q + 1
        ELSE IF 2 * r < n THEN q
        ELSE IF q % 2 = 0 THEN q ELSE q + 1

RECURSIVE SqrtIn(_, _, _)
\* the whole part of the square root of x, known to lie in lo..hi
SqrtIn(x, lo, hi) ==
    IF lo = hi THEN lo
    ELSE LET mid == (lo + hi + 1) \div 2
         IN  IF mid * mid <= x THEN SqrtIn(x, mid, hi) ELSE SqrtIn(x, lo, mid - 1)

\* df[k].std(), the sample standard deviation (n - 1 in the divisor), in
\* hundredths for values in tenths, cut to a whole number; NaN for one row
Std(rows, k) ==
    LET n == Len(rows)
        total == Sum(rows, k)
        ss == Sum([i \in 1..n |-> [sq |-> (n * rows[i][k] - total) * (n * rows[i][k] - total)]], "sq")
    IN  IF n = 1 THEN NaN
        ELSE Some(SqrtIn(MulDiv(ss, 100, n * n * (n - 1)), 0, 40000))

ConfidenceMutant(std, c) == IF std = NaN THEN 0 ELSE 10000 - c * std[1]
\* max(0, 100 - std * c) in hundredths: 100 - NaN > 0 is false
Confidence(std, c) ==
    IF std = NaN THEN 0
    ELSE IF 10000 - c * std[1] > 0 THEN 10000 - c * std[1] ELSE 0

\* twice the confidence_score, in hundredths
ConfidenceScore2(rows) ==
    Confidence(Std(rows, "temperatureC"), 3) + Confidence(Std(rows, "humidity"), 2)

\* describe_conditions (utils.py) of values that are numerators over n, in
\* tenths; the result is the list of words that ", ".join puts together
describe_conditions(temp, humidity, precip, n) ==
    <<IF temp < 100 * n THEN "Frío"
      ELSE IF temp < 200 * n THEN "Templado"
      ELSE IF temp < 300 * n THEN "Cálido"
      ELSE "Caluroso",
      IF precip > 50 * n THEN "lluvioso"
      ELSE IF precip > 10 * n THEN "con llovizna"
      ELSE IF humidity > 800 * n THEN "muy húmedo"
      ELSE IF humidity > 600 * n THEN "húmedo"
      ELSE "seco",
      IF humidity > 800 * n THEN "nublado"
      ELSE IF humidity > 600 * n THEN "parcialmente nublado"
      ELSE "despejado">>

\* the predicted values of the returned dict, its confidence and its
\* conditions, for which line 211 passes predicted_wind_speed as precip
Predict(rows, z) ==
    LET n == Len(rows) IN
    [temperatureC |-> Round1(MaxMin(Noised(rows, "temperatureC", z), -500, 600, n), n),
     humidity |-> Round1(MaxMin(Noised(rows, "humidity", z), 0, 1000, n), n),
     windSpeed |-> Round1(MaxMin(Noised(rows, "windSpeed", z), 0, 500, n), n),
     windDirection |-> Round1(Sum(rows, "windDirection") % (3600 * n), n),
     precipitation |-> Round1(Max0(Noised(rows, "precipitation", z)), n),
     cloudCover |-> Round1(MaxMin(Noised(rows, "cloudCover", z), 0, 1000, n), n),
     pressure |-> Round1(MaxMin(Noised(rows, "pressure", z), 9500, 10500, n), n),
     uvIndex |-> Round1(MaxMin(Noised(rows, "uvIndex", z), 0, 110, n), n),
     confidence |-> Round1(ConfidenceScore2(rows), 20),
     conditions |-> describe_conditions(MaxMin(Noised(rows, "temperatureC", z), -500, 600, n),
                                        MaxMin(Noised(rows, "humidity", z), 0, 1000, n),
                                        MaxMin(Noised(rows, "windSpeed", z), 0, 500, n), n)]

PredictedKeys ==
    {"temperatureC", "humidity", "windSpeed", "windDirection", "precipitation",
     "cloudCover", "pressure", "uvIndex"}

\* rows of a Sample: two mild days with a northerly wind, whose direction
\* was rounded to 360.0 and 359.9, a cold wet day and a hot dry one, their
\* winds 10 degrees either side of north
PredictRows ==
    {[temperatureC |-> 216, humidity |-> 650, windSpeed |-> 42, windDirection |-> 3600,
      precipitation |-> 0, cloudCover |-> 520, pressure |-> 10132, uvIndex |-> 62],
     [temperatureC |-> 224, humidity |-> 602, windSpeed |-> 42, windDirection |-> 3599,
      precipitation |-> 0, cloudCover |-> 480, pressure |-> 10132, uvIndex |-> 58],
     [temperatureC |-> -34, humidity |-> 980, windSpeed |-> 156, windDirection |-> 100,
      precipitation |-> 124, cloudCover |-> 1000, pressure |-> 9960, uvIndex |-> 4],
     [temperatureC |-> 450, humidity |-> 200, windSpeed |-> 62, windDirection |-> 3500,
      precipitation |-> 0, cloudCover |-> 100, pressure |-> 10080, uvIndex |-> 108]}

\* draws of np.random.normal, one per call, used for every variable
Noise == {-20000, -14, 0, 14, 20000}

\* a mean exactly half-way between two tenths is rounded by its nearest
\* float's position, which these numbers do not carry, and a confidence
\* less than the cut of the square root away from half-way likewise: such
\* Samples are left out
NoHalfway(rows) ==
    /\ \A k \in PredictedKeys : 2 * (Sum(rows, k) % Len(rows)) # Len(rows)
    /\ ConfidenceScore2(rows) % 20 \notin 10..15

\* a noised mean exactly on a limit of describe_conditions is on one side
\* or the other by its float's position: such draws are left out
OffLimits(rows, z) ==
    LET n == Len(rows) IN
    /\ MaxMin(Noised(rows, "temperatureC", z), -500, 600, n) \notin {100 * n, 200 * n, 300 * n}
    /\ MaxMin(Noised(rows, "humidity", z), 0, 1000, n) \notin {600 * n, 800 * n}
    /\ MaxMin(Noised(rows, "windSpeed", z), 0, 500, n) \notin {10 * n, 50 * n}

PredictInputs ==
    {x \in {[fn |-> "predict", rows |-> r, noise |-> z] :
        r \in {x \in UNION {[1..n -> PredictRows] : n \in 1..MaxSampleRows} : NoHalfway(x)},
        z \in Noise} : OffLimits(x.rows, x.noise)}

CallPredict ==
    /\ inp.fn = "predict"
    /\ out = None
    /\ out' = Some(Predict(inp.rows, inp.noise))
    /\ UNCHANGED <<inp, fetchVars, prev, fileVars>>

\* ---------------------------------------------------------------------
\* The climatology estimate's fields (values in hundredths) and the
\* synthetic provider's season and wind direction.

\* 1000 * np.sin(2 * np.pi * k / 12)
Sin12 == <<0, 500, 866, 1000, 866, 500, 0, -500, -866, -1000, -866, -500>>

Sin1000(k) == Sin12[(k % 12) + 1]

\* 1000 * np.cos(2 * np.pi * k / 12)
Cos1000(k) == Sin1000(k + 3)

Abs(x) == IF x < 0 THEN -x ELSE x

\* the estimator's seasonal_factor, in thousandths: the month is used as
\* given, whatever the latitude
ClimSeasonalFactor(lat, month) == Sin1000(month - 3)

\* the fields of the dict _get_climatology_estimate returns that come from
\* clamps, in tenths, with the seasonal factor and base temperature they
\* are computed next to; d holds the draws of np.random
ClimatologyFields(lat, month, d) ==
    LET seasonal_factor == ClimSeasonalFactor(lat, month)
        base_temp == 1500 + (15 * (9000 - Abs(lat)) * seasonal_factor) \div 90000
        base_humidity == 6000 + 2 * Cos1000(month - 6)
        humidity == Clamp(base_humidity + d.humidity_variation, 2000, 10000)
        wind_speed == Abs(d.wind)
        wind_direction == d.direction
        precipitation == IF d.precipitation > 0 THEN d.precipitation ELSE 0
        cloud_cover == Clamp((humidity * 8) \div 10 + precipitation * 10, 0, 10000)
    IN  [seasonal_factor |-> seasonal_factor,
         base_temp |-> base_temp,
         humidity |-> Round1(humidity, 10),
         windSpeed |-> Round1(wind_speed, 10),
         windDirection |-> Round1(wind_direction, 10),
         precipitation |-> Round1(precipitation, 10),
         cloudCover |-> Round1(cloud_cover, 10)]

\* latitudes in hundredths of a degree: the poles, Cape Town, the equator,
\* Santiago, New York
ClimLats == {-9000, -3390, -3345, 0, 4071, 9000}

Months == 1..12

\* draws: normal(0, 8), normal(7, 2.5), uniform(0, 360) and
\* exponential(1.5), in hundredths
ClimDraws ==
    [humidity_variation : {-9000, -812, 0, 812, 9000},
     wind : {-31, 702},
     direction : {0, 18012, 35994, 35996, 35999},
     precipitation : {0, 148, 1200}]

\* a value half-way between two tenths is rounded by its nearest float's
\* position, which these numbers do not carry: such draws are left out
NoTie(lat, month, d) ==
    LET humidity == Clamp(6000 + 2 * Cos1000(month - 6) + d.humidity_variation, 2000, 10000)
    IN  /\ humidity % 10 # 5
        /\ ((humidity * 8) \div 10 + d.precipitation * 10) % 10 # 5

ClimInputs ==
    {x \in [fn : {"climatology"}, lat : ClimLats, month : Months, draws : ClimDraws] :
        NoTie(x.lat, x.month, x.draws)}

CallClimatology ==
    /\ inp.fn = "climatology"
    /\ out = None
    /\ out' = Some(ClimatologyFields(inp.lat, inp.month, inp.draws))
    /\ UNCHANGED <<inp, fetchVars, prev, fileVars>>

\* ((target_month + 6) % 12) or 12 for a southern latitude
MockEffectiveMonth(lat, target_month) ==
    IF lat >= 0 THEN target_month
    ELSE IF (target_month + 6) % 12 = 0 THEN 12 ELSE (target_month + 6) % 12

\* the wind direction of a year of the synthetic provider, in hundredths:
\* normal(270, 45) % 360 between 30 and 60 degrees of latitude, else the
\* draw of uniform(0, 360)
MockWindDir(lat, draw) ==
    IF 3000 < Abs(lat) /\ Abs(lat) < 6000 THEN draw % 36000 ELSE draw

\* the season and the stored wind direction of the synthetic provider
MockFields(lat, target_month, draw) ==
    LET effective_month == MockEffectiveMonth(lat, target_month)
    IN  [effective_month |-> effective_month,
         seasonal_factor |-> Sin1000(effective_month - 3),
         windDirection |-> Round1(MockWindDir(lat, draw), 10)]

\* draws of the direction: inside [0, 360) for uniform, any for normal
MockDraws(lat) ==
    IF 3000 < Abs(lat) /\ Abs(lat) < 6000
    THEN {-4, 18012, 27033, 35996, 62996}
    ELSE {0, 18012, 27033, 35996}

MockInputs ==
    UNION {{[fn |-> "mock", lat |-> la, month |-> m, draw |-> w] :
                m \in Months, w \in MockDraws(la)} : la \in ClimLats}

CallMock ==
    /\ inp.fn = "mock"
    /\ out = None
    /\ out' = Some(MockFields(inp.lat, inp.month, inp.draw))
    /\ UNCHANGED <<inp, fetchVars, prev, fileVars>>

CalcInputs ==
    KeyInputs \cup WeatherInputs \cup RainInputs \cup HeatInputs \cup PredictInputs
        \cup ClimInputs \cup MockInputs

InitCalc ==
    /\ InitFetch(1, {<<7, 4>>}, {ArchiveError}, {Absent})
    /\ file = Absent
    /\ writer = <<>>
    /\ reader = <<>>
    /\ prev = None
    /\ inp \in CalcInputs
    /\ out = None

NextCalc ==
    \/ CallCacheKey
    \/ CallWeatherType
    \/ CallRainSnow
    \/ CallHeatIndex
    \/ CallPredict
    \/ CallClimatology
    \/ CallMock

SpecCalc == InitCalc /\ [][NextCalc]_vars

\* ================================================================ claims
IsClimatology(r) == DOMAIN r = {"year", "temperatureC"}

\* the record a fetch_year task is to return for a dict of observed values
ExpectedRecord(y, d) ==
    [year |-> y,
     temperatureC |-> IF "temperature" \in DOMAIN d THEN d["temperature"].v
                      ELSE DefaultTemperature,
     hourMax |-> IF "hour_max" \in DOMAIN d THEN d["hour_max"].v
                 ELSE DefaultHourMax]

\* the file is a cache entry: a non-empty JSON object of numbers
HoldsEntry(f) ==
    /\ f.exists
    /\ LET p == JsonLoad(f.bytes) IN
       /\ p.ok
       /\ p.value.kind = "dict"
       /\ DOMAIN p.value.d # {}
       /\ \A k \in DOMAIN p.value.d : p.value.d[k].num

\* the file exists but is not a cache entry
Unusable(f) == f.exists /\ ~HoldsEntry(f)

RemoteSucceeded(y) == task[y].pc = "done" /\ y \in remoteCalls /\ archive[y].ok

RemoteFailed(y) == task[y].pc = "done" /\ y \in remoteCalls /\ ~archive[y].ok

\* C1: the returned Sample has exactly years_back records, with distinct
\* years of [current_year - years_back, current_year), whichever remote
\* fetches succeed or fail.
C1_SampleComplete ==
    pc = "returned" =>
        /\ Len(sample) = args.years_back
        /\ \A i \in 1..Len(sample) : sample[i].year \in Years
        /\ \A i, j \in 1..Len(sample) : i # j => sample[i].year # sample[j].year

\* C2: a task whose remote archive call failed returns the climatology
\* estimate of its year.
C2_RemoteFailureGivesEstimate ==
    \A y \in Years :
        RemoteFailed(y) =>
            /\ task[y].ret # None
            /\ task[y].ret[1].year = y
            /\ IsClimatology(task[y].ret[1])

\* C3: the returned Sample is ordered by year ascending, whatever the
\* completion order of the tasks.
C3_SampleAscending ==
    pc = "returned" =>
        \A i, j \in 1..Len(sample) : i < j => sample[i].year < sample[j].year

\* C4 as stated: a task whose year's key has an entry in the store returns
\* the record decoded from that entry and the remote archive is not called
\* for that year, then or later in the fetch.
C4_CacheHit ==
    [][\A y \in Years :
          /\ (task[y].pc = "cache" /\ HoldsEntry(cache[KeyOf(y)]) /\ task'[y].pc # "cache")
                => /\ task'[y].pc = "done"
                   /\ task'[y].ret =
                        Some(ExpectedRecord(y, JsonLoad(cache[KeyOf(y)].bytes).value.d))
                   /\ y \notin remoteCalls'
          /\ (task[y].pc = "done" /\ y \notin remoteCalls) => y \notin remoteCalls'
      ]_vars

\* C4, amended: a task whose year's key has an entry in the store, and whose
\* get returns it, returns the record decoded from that entry and the
\* remote archive is not called for that year, then or later in the fetch.
C4_ReadEntryIsHit ==
    [][\A y \in Years :
          /\ ( /\ task[y].pc = "cache" /\ HoldsEntry(cache[KeyOf(y)])
               /\ task'[y].pc # "cache" /\ task'[y].cached # None )
                => /\ task'[y].pc = "done"
                   /\ task'[y].ret =
                        Some(ExpectedRecord(y, JsonLoad(cache[KeyOf(y)].bytes).value.d))
                   /\ y \notin remoteCalls'
          /\ (task[y].pc = "done" /\ y \notin remoteCalls) => y \notin remoteCalls'
      ]_vars

C4_Witness ==
    \E y \in Years :
        /\ task[y].pc = "done"
        /\ y \notin remoteCalls
        /\ task[y].cached = Some(JDict([temperature |-> Num(20)]))
        /\ task[y].ret = Some([year |-> y, temperatureC |-> 20, hourMax |-> DefaultHourMax])

\* C5: after a cache miss and a successful remote call, the fetched
\* observation is in the cache under the year's key and the task returns
\* the record of the fetched values.
C5_RemoteSuccessStoredAndReturned ==
    \A y \in Years :
        RemoteSucceeded(y) =>
            /\ cache[KeyOf(y)] = FileOf(JsonDump(JDict(archive[y].data)))
            /\ task[y].ret = Some(ExpectedRecord(y, archive[y].data))

\* C6: when the deadline expired with tasks still pending, the returned
\* Sample has a record for every requested year, and the records of the
\* pending years are climatology estimates.
C6_DeadlineBackfill ==
    (pc = "returned" /\ unfinished # {}) =>
        /\ \A y \in Years : \E i \in 1..Len(sample) : sample[i].year = y
        /\ \A y \in unfinished :
              \E i \in 1..Len(sample) : sample[i].year = y /\ IsClimatology(sample[i])

C6_Witness ==
    /\ pc = "returned"
    /\ args.years_back = 2
    /\ Cardinality(unfinished) = 1
    /\ yielded # {}
    /\ Len(sample) = 2

\* C7: a cache file that exists but is not a usable entry is handled like a
\* miss: the lookup does not finish the task but goes on to the remote call.
C7_UnusableEntryIsMiss ==
    [][\A y \in Years :
          (task[y].pc = "cache" /\ Unusable(cache[KeyOf(y)]) /\ task'[y].pc # "cache")
              => (task'[y].pc = "remote" /\ y \in remoteCalls')
      ]_vars

\* C8: when the remote call succeeded and the put did not store the
\* observation, the task still returns the record of the fetched values.
C8_PutFailureHarmless ==
    \A y \in Years :
        (RemoteSucceeded(y) /\ cache[KeyOf(y)] # FileOf(JsonDump(JDict(archive[y].data))))
            => task[y].ret = Some(ExpectedRecord(y, archive[y].data))

\* C9: what a get reads from the file is no file at all or the complete
\* text of one record handed to some put, never a partial or mixed text;
\* and once every put that was started has stored its record, a get returns
\* the record of one of them (the last write wins).
C9_NoTornRead ==
    /\ \A r \in DOMAIN reader :
          reader[r].pc = "done" =>
              \/ reader[r].seen = Absent
              \/ \E d \in PutData : reader[r].seen = FileOf(JsonDump(JDict(d)))
    /\ ( /\ \A w \in DOMAIN writer : writer[w].pc \in {"idle", "stored"}
         /\ \E w \in DOMAIN writer : writer[w].pc = "stored" )
          => \E d \in PutData : _get_cached_data(file, "ok").value = Some(JDict(d))

\* C10: at most 5 fetch_year tasks execute at any moment, hence at most 5
\* remote archive calls are in flight.
C10_AtMostFiveRunning ==
    /\ Cardinality(Running) <= 5
    /\ Cardinality({y \in Years : task[y].pc = "remote"}) <= 5

C10_Witness ==
    /\ Cardinality({y \in Years : task[y].pc = "remote"}) = 5
    /\ \E y \in Years : task[y].pc = "queued"

\* a coordinate in thousandths of a degree rounded to the hundredth, as a
\* number: -0.00 and 0.00 are the same value
Round2(x) ==
    IF x < 0 THEN 0 - ((0 - x + 5) \div 10) ELSE (x + 5) \div 10

\* the first call of two stored year y's record: it called the archive,
\* got the observation, and left it under the key it used
StoredByFirstCall(y) ==
    /\ prev # None
    /\ y \in prev[1].remoteCalls
    /\ archive[y].ok
    /\ prev[1].cache[_get_cache_key(prev[1].args.lat, prev[1].args.lon, y,
                                    prev[1].args.target_month,
                                    prev[1].args.target_day)]
          = FileOf(JsonDump(JDict(archive[y].data)))

SameRounding == prev # None /\ Round2(prev[1].args.lat) = Round2(args.lat)

\* C11: in the second of two fetches for the same date and coordinates
\* that round to the same hundredth of a degree, the task of every year
\* whose record the first fetch stored returns the record of the stored
\* values and the remote archive is not called for that year.
C11_SecondCallServedFromCache ==
    SameRounding =>
        \A y \in Years :
            (StoredByFirstCall(y) /\ task[y].pc = "done") =>
                /\ task[y].ret = Some(ExpectedRecord(y, archive[y].data))
                /\ y \notin remoteCalls

\* C12: two calls of _get_cache_key with the same date and coordinates
\* that round to the same hundredths of a degree (values just below and
\* just above zero included) return the same key.
C12_KeyOfRoundedCoordinates ==
    (inp.fn = "_get_cache_key" /\ out # None) =>
        ((Round2(inp.a[1]) = Round2(inp.b[1]) /\ Round2(inp.a[2]) = Round2(inp.b[2]))
            => out[1][1] = out[1][2])

\* C13: for valid coordinates and years_back > 0, fetch_historical_data
\* never raises to its caller, whatever combination of remote failures,
\* cache read and write failures and deadline expiry occurs.
C13_FetchNeverRaises == pc # "raised"

\* the fetch returned after the deadline expired, one remote call failed
\* and the cache write after a successful remote call raised
C13_Witness ==
    /\ pc = "returned"
    /\ unfinished # {}
    /\ \E y \in Years : RemoteFailed(y)
    /\ \E y \in Years :
          /\ RemoteSucceeded(y)
          /\ task[y].ret # None
          /\ IsClimatology(task[y].ret[1])

\* C14: with years_back > 0 predict_for_point never raises its
\* empty-sample error, also when every year's remote fetch fails: the
\* Sample then holds the climatology estimates.
C14_NoEmptySampleError == pc # "empty_error"

\* every remote call failed and the prediction was made from estimates
C14_Witness ==
    /\ pc = "predicted"
    /\ \A y \in Years : RemoteFailed(y)
    /\ Len(sample) = args.years_back
    /\ \A i \in 1..Len(sample) : IsClimatology(sample[i])

\* the Sample has a year resolved from the archive or the cache and a year
\* resolved from the climatology estimator
MixedSample ==
    /\ \E i \in 1..Len(sample) : IsClimatology(sample[i])
    /\ \E i \in 1..Len(sample) : ~IsClimatology(sample[i])

\* C15: predict_for_point does not raise on a non-empty Sample that mixes
\* years resolved from the remote archive or the cache with years resolved
\* from the climatology estimator.
C15_PredictSucceedsOnMixedSample ==
    MixedSample => pc \in {"returned", "predicted"}

\* the rules of the classification in their order: <<condition, category>>
WeatherRules(i) ==
    <<<<i.precip > 100 /\ i.wind_speed > 150, "stormy">>,
      <<i.temp < 20 /\ i.precip > 20, "snowy">>,
      <<i.precip > 50, "rainy">>,
      <<i.humidity > 900, "foggy">>,
      <<i.cloud_cover > 600, "cloudy">>,
      <<TRUE, "sunny">>>>

FirstMatch(rules) ==
    rules[CHOOSE k \in 1..Len(rules) :
             rules[k][1] /\ \A j \in 1..(k - 1) : ~rules[j][1]][2]

\* C16: determine_weather_type returns the category of the first rule that
\* matches, in the order stormy, snowy, rainy, foggy, cloudy, sunny; with
\* precip > 10 and wind > 15 the result is stormy also when the snowy rule
\* matches.
C16_FirstMatchingRule ==
    (inp.fn = "determine_weather_type" /\ out # None) =>
        /\ out[1] = FirstMatch(WeatherRules(inp))
        /\ (inp.precip > 100 /\ inp.wind_speed > 150) => out[1] = "stormy"

\* precipitation 12 and wind 16 at a temperature below 2: both the stormy
\* and the snowy rule match
C16_Witness ==
    /\ inp.fn = "determine_weather_type"
    /\ inp.precip = 120 /\ inp.wind_speed = 160 /\ inp.temp = 19
    /\ out = Some("stormy")

\* the precip_factor of the claim for p tenths of a millimetre, in 1/5000
\* of a percent
StatedPrecipFactor(p) ==
    IF p < 50 THEN (2 * p * Percent) \div 10
    ELSE IF p < 150 THEN 10 * Percent + (3 * (p - 50) * Percent) \div 20
    ELSE LET f == 25 * Percent + ((p - 150) * Percent) \div 20
         IN  IF f < 30 * Percent THEN f ELSE 30 * Percent

StatedRain(h, p) ==
    Clamp(Clamp(((h - 300) * Percent) \div 10, 0, 70 * Percent) + StatedPrecipFactor(p),
          0, 100 * Percent)

\* C17: for a predicted temperature of at least 5 the rain probability is
\* clamp(humidity - 30, 0, 70) + precip_factor clamped to [0, 100], with
\* the stated piecewise precip_factor, which does not decrease when the
\* precipitation grows and never exceeds 30; humidity 80 with no
\* precipitation gives 50.
C17_RainProbability ==
    (inp.fn = "rain_snow" /\ out # None) =>
        /\ \A k \in 1..2 :
              /\ inp.temp >= 50 =>
                    out[1][k].rain_probability = StatedRain(inp.humidity, inp.precip[k])
              /\ out[1][k].precip_factor = StatedPrecipFactor(inp.precip[k])
              /\ out[1][k].precip_factor <= 30 * Percent
              /\ (inp.temp >= 50 /\ inp.humidity = 800 /\ inp.precip[k] = 0) =>
                    out[1][k].rain_probability = 50 * Percent
        /\ inp.precip[1] <= inp.precip[2] =>
              out[1][1].precip_factor <= out[1][2].precip_factor

\* humidity 80 at 5 degrees: 50 without precipitation; 40 mm reach the cap
C17_Witness ==
    /\ inp.fn = "rain_snow"
    /\ inp.temp = 50 /\ inp.humidity = 800 /\ inp.precip = <<0, 400>>
    /\ out # None
    /\ out[1][1].rain_probability = 50 * Percent
    /\ out[1][2].precip_factor = 30 * Percent
    /\ out[1][2].rain_probability = 80 * Percent

\* C18: rain_probability and snow_probability are each in [0, 100] and
\* their sum is at most 100; snow_probability is non-zero only below 5
\* degrees, and there the rain probability is what is left of it after
\* the snow share (5 - temp) / 5 is taken away.
C18_RainSnowBlend ==
    (inp.fn = "rain_snow" /\ out # None) =>
        \A k \in 1..2 :
            LET r == out[1][k]
                share == (r.rain0 * (50 - inp.temp)) \div 50
            IN  /\ r.rain_probability \in 0..(100 * Percent)
                /\ r.snow_probability \in 0..(100 * Percent)
                /\ r.rain_probability + r.snow_probability <= 100 * Percent
                /\ r.snow_probability # 0 => inp.temp < 50
                /\ inp.temp < 50 =>
                      /\ r.rain_probability =
                            (IF r.rain0 > share THEN r.rain0 - share ELSE 0)
                      /\ r.snow_probability > 0 => r.rain_probability < r.rain0

\* humidity 80 without precipitation at -2 degrees: the snow share is
\* 7/5 of 50, no rain probability is left
C18_Witness ==
    /\ inp.fn = "rain_snow"
    /\ inp.temp = -20 /\ inp.humidity = 800 /\ inp.precip[1] = 0
    /\ out # None
    /\ out[1][1].snow_probability = 70 * Percent
    /\ out[1][1].rain_probability = 0

\* C19: calculate_heat_index returns temp_c unchanged whenever the
\* humidity is below 40 or temp_c * 9 / 5 + 32 is below 80.
C19_HeatIndexUnchanged ==
    (inp.fn = "calculate_heat_index" /\ out # None) =>
        ((inp.humidity < 400 \/ inp.temp_c * 9 + 5 * 320 < 5 * 800)
            => out[1] = inp.temp_c * 1000)

\* a hot dry input (35 degrees, 39.9 percent) or a humid one just below
\* 80 F (26.6 degrees, 90 percent) came back unchanged
C19_Witness ==
    /\ inp.fn = "calculate_heat_index"
    /\ out # None
    /\ \/ inp.temp_c = 350 /\ inp.humidity = 399 /\ out[1] = 350000
       \/ inp.temp_c = 266 /\ inp.humidity = 900 /\ out[1] = 266000

\* C20: every predicted value returned by predict_for_point for a
\* non-empty Sample lies in its physical range: temperature in [-50, 60],
\* humidity and cloud cover in [0, 100], wind speed in [0, 50], wind
\* direction in [0, 360), pressure in [950, 1050], UV index in [0, 11],
\* precipitation at least 0.
C20_PredictedValuesInRange ==
    (inp.fn = "predict" /\ out # None) =>
        /\ out[1].temperatureC \in -500..600
        /\ out[1].humidity \in 0..1000
        /\ out[1].cloudCover \in 0..1000
        /\ out[1].windSpeed \in 0..500
        /\ out[1].windDirection >= 0 /\ out[1].windDirection < 3600
        /\ out[1].pressure \in 9500..10500
        /\ out[1].uvIndex \in 0..110
        /\ out[1].precipitation >= 0

\* C21: every record of the climatology estimator and of the synthetic
\* provider keeps the clamp invariants whatever the draws: humidity in
\* [0, 100], wind direction in [0, 360) after rounding to one decimal, wind
\* speed and precipitation at least 0, cloud cover in [0, 100].
C21_ClimatologyClamps ==
    /\ (inp.fn = "climatology" /\ out # None) =>
            /\ out[1].humidity \in 0..1000
            /\ out[1].windDirection >= 0 /\ out[1].windDirection < 3600
            /\ out[1].windSpeed >= 0
            /\ out[1].precipitation >= 0
            /\ out[1].cloudCover \in 0..1000
    /\ (inp.fn = "mock" /\ out # None) =>
            out[1].windDirection >= 0 /\ out[1].windDirection < 3600

\* C22: the confidence predict_for_point returns for a non-empty Sample is
\* in [0, 100], whatever the standard deviations of temperature and
\* humidity.
C22_ConfidenceInRange ==
    (inp.fn = "predict" /\ out # None) => out[1].confidence \in 0..1000

\* a Sample whose temperatures and humidities are both spread so widely
\* that 100 - 3 * std and 100 - 2 * std are negative
C22_Witness ==
    /\ inp.fn = "predict" /\ out # None
    /\ Len(inp.rows) > 1
    /\ 3 * Std(inp.rows, "temperatureC")[1] > 10000
    /\ 2 * Std(inp.rows, "humidity")[1] > 10000
    /\ out[1].confidence = 0

\* C23: once the deadline has expired, the return to the caller does not
\* wait for the tasks that are still running: from the expiry on, fetch
\* is able to return whatever the state of the tasks.
C23_ReturnNotDelayedByTasks ==
    pc = "shutdown" => ENABLED ShutdownFallback

\* the month whose season a point at the latitude is in: the month itself
\* in the northern hemisphere, six months later in the southern
StatedEffectiveMonth(lat, month) ==
    IF lat >= 0 THEN month ELSE ((month + 5) % 12) + 1

\* C24: the per-year fallback estimate and the synthetic provider both take
\* their seasonal factor from the effective month: the month for a latitude
\* of 0 or more, the month six months away (within 1..12) for a latitude
\* below 0.
C24_SouthernSeasonFlipped ==
    /\ (inp.fn = "climatology" /\ out # None) =>
            out[1].seasonal_factor = Sin1000(StatedEffectiveMonth(inp.lat, inp.month) - 3)
    /\ (inp.fn = "mock" /\ out # None) =>
            /\ out[1].effective_month = StatedEffectiveMonth(inp.lat, inp.month)
            /\ out[1].seasonal_factor = Sin1000(StatedEffectiveMonth(inp.lat, inp.month) - 3)

\* a direction in tenths of a degree as an offset from north, in
\* -1800..1799
Offset(d) == IF d % 3600 < 1800 THEN d % 3600 ELSE (d % 3600) - 3600

\* the Sample's directions all lie less than 90 degrees from north
NearNorth(rows) ==
    \A i \in 1..Len(rows) : Offset(rows[i].windDirection) \in -899..899

\* C25: the predicted wind direction is the circular mean of the Sample's
\* directions, reduced modulo 360 and free of noise: for directions that
\* all lie within 90 degrees of north it is no further from north than the
\* furthest of them, on the same side as their offsets lean, and for two
\* of them it is the direction half-way along the shorter arc between
\* them (350 and 10 give 0).
C25_CircularMeanDirection ==
    (inp.fn = "predict" /\ out # None /\ NearNorth(inp.rows)) =>
        LET n == Len(inp.rows)
            offs == [i \in 1..n |-> [o |-> Offset(inp.rows[i].windDirection)]]
            got == Offset(out[1].windDirection)
        IN  /\ \E i \in 1..n : got >= offs[i].o - 1
            /\ \E i \in 1..n : got <= offs[i].o + 1
            /\ n = 2 => (2 * got - Sum(offs, "o")) \in -2..2

\* C26: a year whose task had completed with a record of observed values
\* before the deadline expired, or next to a task that failed, has that
\* record in the returned Sample; only failed and pending years hold
\* climatology estimates.
C26_CompletedYearsKeepRecords ==
    pc = "returned" =>
        \A y \in Years \ unfinished :
            (task[y].ret # None /\ ~IsClimatology(task[y].ret[1])) =>
                \E i \in 1..Len(sample) : sample[i] = task[y].ret[1]

\* the step in which the task of year y ends in the except of fetch_year
ExceptionStep(y) ==
    /\ task[y].pc \in {"queued", "cache", "remote"}
    /\ task'[y].pc = "done"
    /\ task'[y].ret # None
    /\ IsClimatology(task'[y].ret[1])

\* C27: an exception inside the task of one year (a date that does not
\* exist in that year, a cached value that cannot be converted, a failed
\* put) ends that task with a climatology estimate for its year and leaves
\* the tasks of the other years and the collected records as they are; when
\* the fetch then returns from its loop, the Sample holds every task's
\* record.
C27_ExceptionStaysInItsYear ==
    [][/\ \A y \in Years :
             ExceptionStep(y) =>
                 /\ task'[y].ret[1].year = y
                 /\ \A z \in Years \ {y} : task'[z] = task[z]
                 /\ data' = data /\ yielded' = yielded /\ pc' = pc
       /\ (pc' = "returned" /\ yielded' = Years) =>
             \A y \in Years :
                 task'[y].ret # None =>
                     \E i \in 1..Len(sample') : sample'[i] = task'[y].ret[1]
      ]_vars

\* 29 February asked for 2024 and 2025: the task of 2025 raised and its
\* year holds an estimate, the record of 2024 holds the observed values
C27_Witness ==
    /\ pc = "returned" /\ yielded = Years
    /\ args.target_month = 2 /\ args.target_day = 29
    /\ Len(sample) = 2
    /\ \E i, j \in 1..2 :
          /\ sample[i].year = 2025 /\ IsClimatology(sample[i])
          /\ sample[j].year = 2024 /\ ~IsClimatology(sample[j])

\* the archive was called for year y, in this fetch or the one before
RemotelyCalled(y) == y \in remoteCalls \/ (prev # None /\ y \in prev[1].remoteCalls)

\* C28: starting from an empty store, after any sequence of fetches every
\* entry of the store is the observation a successful remote call returned
\* for the year of the entry's key; climatology estimates are never
\* stored, and only the return of a successful remote call writes a file:
\* a cache hit leaves the entry as it is.
C28_CacheHoldsOnlyObservations ==
    [][/\ \A k \in DOMAIN cache' :
             HoldsEntry(cache'[k]) =>
                 /\ k[3] \in Years
                 /\ RemotelyCalled(k[3])'
                 /\ archive'[k[3]].ok
                 /\ cache'[k] = FileOf(JsonDump(JDict(archive'[k[3]].data)))
       /\ \A k \in DOMAIN cache :
             (k \in DOMAIN cache' /\ cache'[k] # cache[k]) =>
                 \E y \in Years :
                     /\ k = KeyOf(y)
                     /\ task[y].pc = "remote" /\ task'[y].pc = "done"
                     /\ archive[y].ok
      ]_vars

\* the second fetch was served from the entry the first one stored: the
\* archive was not called again and the entry is the one of the first call
C28_Witness ==
    /\ pc = "returned" /\ prev # None
    /\ \E y \in Years :
          /\ StoredByFirstCall(y)
          /\ y \notin remoteCalls
          /\ task[y].cached # None
          /\ HoldsEntry(cache[KeyOf(y)])
          /\ cache[KeyOf(y)] = prev[1].cache[KeyOf(y)]

\* C29: the split into rain and snow never increases the total: for a
\* predicted temperature below 5 degrees, also below 0, rain_probability
\* plus snow_probability after the split is at most the rain probability
\* computed before it.
C29_SplitKeepsTotal ==
    (inp.fn = "rain_snow" /\ out # None /\ inp.temp < 50) =>
        \A k \in 1..2 :
            out[1][k].rain_probability + out[1][k].snow_probability <= out[1][k].rain0

\* the words of a description
Words(c) == {c[i] : i \in 1..Len(c)}

\* C30: the conditions of the prediction follow the predicted
\* precipitation: they say 'lluvioso' exactly when it is above 5 and 'con
\* llovizna' exactly when it is above 1 and at most 5, whatever the
\* predicted wind speed.
C30_ConditionsFollowPrecipitation ==
    (inp.fn = "predict" /\ out # None) =>
        LET n == Len(inp.rows)
            predicted_precip == Max0(Noised(inp.rows, "precipitation", inp.noise))
        IN  /\ "lluvioso" \in Words(out[1].conditions) <=> predicted_precip > 50 * n
            /\ "con llovizna" \in Words(out[1].conditions) <=>
                   (predicted_precip > 10 * n /\ predicted_precip <= 50 * n)

====
